---- MODULE Spec2Model ----
(***************************************************************************)
(* Model of the D&D 5E character-sheet filler (src/dnd_character_sheet.py):*)
(* the pure helpers calculate_modifier, format_modifier and                *)
(* parse_proficiency_bonus, the deserializer character_from_dict, the      *)
(* field mapper get_field_mapping, and the fill run of main / fill_pdf;    *)
(* and of the grid generator get_matrix (src/codenames_matrix.py).         *)
(*                                                                         *)
(* Python values are tagged records [t |-> <type name>, <payload>];        *)
(* text is a TLA+ string, taken apart with Head and Tail.                  *)
(***************************************************************************)
EXTENDS Integers, Sequences, FiniteSets, TLC

VARIABLES
    pc,      \* position of the fill run in main / fill_pdf
    input,   \* what json.load returned, as read from the character file
    char_data,   \* main's char_data: the dict handed to character_from_dict
    character,   \* main's char: the Character, None before deserialization
    field_data,  \* fill_pdf's field_data: what get_field_mapping returned
    err,     \* the exception that aborted the run, "none" if none
    output,  \* the field data written to the output PDF, None while there is none
    call,    \* the helper call made last in a unit run: [fn, arg]
    ret,     \* what that call returned: [ok, val]
    wilds,   \* get_matrix: the 5 cells drawn without replacement, <<>> before
    num,     \* get_matrix: the last draw of ri(1, 4), 0 before the first
    ones,    \* get_matrix: the counters of the cells given to each team
    twos,
    threes,
    cell,    \* get_matrix: i, the index of the cell being filled
    row,     \* get_matrix: the row being filled
    matrix   \* get_matrix: the rows appended so far (see the grid section)

\* the variables of get_matrix, and those of the character-sheet filler
grid == <<wilds, num, ones, twos, threes, cell, row, matrix>>

sheet == <<input, char_data, character, field_data, err, output, call, ret>>

vars == <<pc, input, char_data, character, field_data, err, output, call, ret,
          wilds, num, ones, twos, threes, cell, row, matrix>>

\* get_matrix has not been called
NoGrid ==
    /\ wilds = <<>>
    /\ num = 0
    /\ ones = 0
    /\ twos = 0
    /\ threes = 0
    /\ cell = 0
    /\ row = <<>>
    /\ matrix = [shape |-> <<>>, tally |-> [B |-> 0, R |-> 0, G |-> 0]]

(***************************************************************************)
(* Bounds of the model.                                                    *)
(***************************************************************************)
MaxScore == 30
MaxMod == 120
MaxBonus == 12
MaxBonusLen == 3
MaxAttacks == 5
MaxCantrips == 10
MaxSpells == 15

(***************************************************************************)
(* Python values.                                                          *)
(***************************************************************************)
\* (each type keeps its payload under a name of its own, so that two values of
\* different types are told apart by their shape, before any payload is compared)
StrV(s) == [t |-> "str", s |-> s]
IntV(n) == [t |-> "int", n |-> n]
BoolV(b) == [t |-> "bool", b |-> b]
ListV(q) == [t |-> "list", items |-> q]
DictV(f) == [t |-> "dict", v |-> f]
None == [t |-> "NoneType"]
NameObject(s) == [t |-> "NameObject", s |-> s]

\* bool(x) for the values the program tests in an if
Truthy(x) ==
    CASE x.t = "bool" -> x.b
      [] x.t = "int" -> x.n # 0
      [] x.t = "str" -> x.s # ""
      [] x.t = "NameObject" -> x.s # ""
      [] x.t = "list" -> Len(x.items) > 0
      [] x.t = "dict" -> DOMAIN x.v # {}
      [] x.t = "NoneType" -> FALSE
      [] OTHER -> TRUE

(***************************************************************************)
(* Text: str(int), int(str) and str.replace, as Python computes them.      *)
(***************************************************************************)
DigitChars == "0123456789"

DigitChar(d) == SubSeq(DigitChars, d + 1, d + 1)

IsDigit(c) == c \in {"0", "1", "2", "3", "4", "5", "6", "7", "8", "9"}

DigitVal(c) == CHOOSE d \in 0..9 : DigitChar(d) = c

IsSpace(c) == c \in {" ", "\t", "\n", "\r"}

RECURSIVE NatStr(_)
NatStr(n) == IF n < 10 THEN DigitChar(n) ELSE NatStr(n \div 10) \o DigitChar(n % 10)

\* str(n) of an int
PyStr(n) == IF n < 0 THEN "-" \o NatStr(-n) ELSE NatStr(n)

RECURSIVE LStrip(_)
LStrip(s) == IF s # "" /\ IsSpace(Head(s)) THEN LStrip(Tail(s)) ELSE s

RECURSIVE RStrip(_)
RStrip(s) ==
    IF s # "" /\ IsSpace(SubSeq(s, Len(s), Len(s)))
    THEN RStrip(SubSeq(s, 1, Len(s) - 1))
    ELSE s

\* digits, with single underscores allowed between two digits only
RECURSIVE DigitGroups(_, _)
DigitGroups(s, prevDigit) ==
    IF s = "" THEN prevDigit
    ELSE IF IsDigit(Head(s)) THEN DigitGroups(Tail(s), TRUE)
    ELSE IF Head(s) = "_" THEN prevDigit /\ DigitGroups(Tail(s), FALSE)
    ELSE FALSE

RECURSIVE DigitsValue(_, _)
DigitsValue(s, acc) ==
    IF s = "" THEN acc
    ELSE IF Head(s) = "_" THEN DigitsValue(Tail(s), acc)
    ELSE DigitsValue(Tail(s), acc * 10 + DigitVal(Head(s)))

\* int(s) of a str, base 10: surrounding whitespace is stripped, one sign is
\* allowed, then digits; anything else raises ValueError
PyInt(s) ==
    LET body == RStrip(LStrip(s))
        signed == body # "" /\ Head(body) \in {"+", "-"}
        digits == IF signed THEN Tail(body) ELSE body
    IN  IF DigitGroups(digits, FALSE)
        THEN [ok |-> TRUE,
              val |-> IF signed /\ Head(body) = "-"
                      THEN 0 - DigitsValue(digits, 0)
                      ELSE DigitsValue(digits, 0)]
        ELSE [ok |-> FALSE, val |-> 0]

\* s.replace(c, "") for a one-character c
RECURSIVE Remove(_, _)
Remove(s, c) ==
    IF s = "" THEN ""
    ELSE IF Head(s) = c THEN Remove(Tail(s), c)
    ELSE Head(s) \o Remove(Tail(s), c)

(***************************************************************************)
(* Derived stat arithmetic.                                                *)
(***************************************************************************)
\* Mutant: division that rounds toward zero
calculate_modifier_trunc(score) ==
    IF score >= 10 THEN (score - 10) \div 2 ELSE 0 - ((10 - score) \div 2)

calculate_modifier(score) == (score - 10) \div 2

\* Mutant: no sign for a non-negative modifier
format_modifier_unsigned(mod) == PyStr(mod)

format_modifier(mod) == IF mod >= 0 THEN "+" \o PyStr(mod) ELSE PyStr(mod)

\* Mutant: the empty text is not special-cased
parse_proficiency_bonus_no_default(bonus_str) == PyInt(Remove(bonus_str, "+"))

\* [ok |-> TRUE, val |-> n] on return, ok = FALSE when int() raises ValueError
parse_proficiency_bonus(bonus_str) ==
    IF bonus_str = "" THEN [ok |-> TRUE, val |-> 0]
    ELSE PyInt(Remove(bonus_str, "+"))

(***************************************************************************)
(* Data model: the dataclasses, their fields and their defaults.           *)
(***************************************************************************)
AbilityNames ==
    <<"strength", "dexterity", "constitution", "intelligence", "wisdom", "charisma">>

SkillNames ==
    <<"acrobatics", "animal_handling", "arcana", "athletics", "deception",
      "history", "insight", "intimidation", "investigation", "medicine",
      "nature", "perception", "performance", "persuasion", "religion",
      "sleight_of_hand", "stealth", "survival">>

Range(q) == {q[i] : i \in DOMAIN q}

Levels == 1..9

SlotsKey(level) == "level_" \o PyStr(level) \o "_slots"

SpellsKey(level) == "level_" \o PyStr(level) \o "_spells"

AbilityScoresDefaults == [a \in Range(AbilityNames) |-> IntV(10)]

SavingThrowsDefaults == [a \in Range(AbilityNames) |-> BoolV(FALSE)]

SkillsDefaults == [k \in Range(SkillNames) |-> BoolV(FALSE)]

AttackDefaults == [name |-> StrV(""), attack_bonus |-> StrV(""), damage_type |-> StrV("")]

CurrencyDefaults == [cp |-> IntV(0), sp |-> IntV(0), ep |-> IntV(0), gp |-> IntV(0), pp |-> IntV(0)]

DeathSavesDefaults == [successes |-> IntV(0), failures |-> IntV(0)]

SpellSlotsDefaults == [total |-> IntV(0), expended |-> IntV(0)]

AppearanceDefaults ==
    [age |-> StrV(""), height |-> StrV(""), weight |-> StrV(""),
     eyes |-> StrV(""), skin |-> StrV(""), hair |-> StrV("")]

SpellcastingTextFields ==
    {"spellcasting_class", "spellcasting_ability", "spell_save_dc", "spell_attack_bonus"}

SpellcastingDefaults ==
    [f \in SpellcastingTextFields \cup {"cantrips"}
           \cup {SlotsKey(l) : l \in Levels} \cup {SpellsKey(l) : l \in Levels} |->
        IF f \in SpellcastingTextFields THEN StrV("")
        ELSE IF f \in {SlotsKey(l) : l \in Levels}
             THEN [t |-> "SpellSlots", v |-> SpellSlotsDefaults]
             ELSE ListV(<<>>)]

\* the str fields of Character
CharacterTextFields ==
    {"character_name", "class_level", "background", "player_name", "race",
     "alignment", "experience_points", "proficiency_bonus", "passive_perception",
     "armor_class", "initiative", "speed", "hit_point_maximum",
     "current_hit_points", "temporary_hit_points", "hit_dice_total", "hit_dice",
     "attacks_notes", "equipment", "personality_traits", "ideals", "bonds",
     "flaws", "other_proficiencies_languages", "features_traits",
     "character_appearance", "character_backstory", "allies_organizations",
     "allies_organizations_name", "additional_features_traits", "treasure"}

\* the fields of Character that hold a nested dataclass, with its class
NestedClass ==
    [ability_scores |-> "AbilityScores", saving_throws |-> "SavingThrows",
     skills |-> "Skills", death_saves |-> "DeathSaves", currency |-> "Currency",
     appearance |-> "Appearance", spellcasting |-> "Spellcasting"]

ClassNames ==
    {"AbilityScores", "SavingThrows", "Skills", "Attack", "Currency",
     "DeathSaves", "SpellSlots", "Spellcasting", "Appearance", "Character"}

Defaults(cls) ==
    CASE cls = "AbilityScores" -> AbilityScoresDefaults
      [] cls = "SavingThrows" -> SavingThrowsDefaults
      [] cls = "Skills" -> SkillsDefaults
      [] cls = "Attack" -> AttackDefaults
      [] cls = "Currency" -> CurrencyDefaults
      [] cls = "DeathSaves" -> DeathSavesDefaults
      [] cls = "SpellSlots" -> SpellSlotsDefaults
      [] cls = "Spellcasting" -> SpellcastingDefaults
      [] cls = "Appearance" -> AppearanceDefaults
      [] cls = "Character" ->
            [f \in CharacterTextFields \cup DOMAIN NestedClass
                   \cup {"inspiration", "attacks"} |->
                IF f \in CharacterTextFields THEN StrV("")
                ELSE IF f = "inspiration" THEN BoolV(FALSE)
                ELSE IF f = "attacks" THEN ListV(<<>>)
                ELSE [t |-> NestedClass[f],
                      v |-> CASE f = "ability_scores" -> AbilityScoresDefaults
                              [] f = "saving_throws" -> SavingThrowsDefaults
                              [] f = "skills" -> SkillsDefaults
                              [] f = "death_saves" -> DeathSavesDefaults
                              [] f = "currency" -> CurrencyDefaults
                              [] f = "appearance" -> AppearanceDefaults
                              [] f = "spellcasting" -> SpellcastingDefaults]]

FieldsOf(cls) == DOMAIN Defaults(cls)

\* cls(**kwargs) accepts exactly the field names of the dataclass as keywords
\* Mutant: keywords that are no field are dropped
Accepts_any(cls, kwargs) == TRUE

Accepts(cls, kwargs) == DOMAIN kwargs \subseteq FieldsOf(cls)

\* the instance cls(**kwargs) builds: the keywords given, the defaults for the rest
New(cls, kwargs) ==
    [t |-> cls,
     v |-> [f \in FieldsOf(cls) |-> IF f \in DOMAIN kwargs THEN kwargs[f] ELSE Defaults(cls)[f]]]

IsInstance(x, cls) == x.t = cls

\* d[k] = x on a dict
Put(d, k, x) == [j \in DOMAIN d \cup {k} |-> IF j = k THEN x ELSE d[j]]

(***************************************************************************)
(* Deserialization.  Every step works on st = [data, err]: the dict being  *)
(* rewritten in place, and the exception raised so far.                    *)
(***************************************************************************)
\* if key in data and isinstance(data[key], dict): data[key] = cls(**data[key])
ConvertNested(st, key, cls) ==
    IF st.err # "none" \/ key \notin DOMAIN st.data \/ st.data[key].t # "dict"
    THEN st
    ELSE IF Accepts(cls, st.data[key].v)
         THEN [st EXCEPT !.data = Put(st.data, key, New(cls, st.data[key].v))]
         ELSE [st EXCEPT !.err = "TypeError"]

\* Mutant: the attacks list is left as the list of mappings it was
ConvertAttacks_skipped(st) == st

\* data["attacks"] = [Attack(**a) if isinstance(a, dict) else a for a in ...]
ConvertAttacks(st) ==
    IF st.err # "none" \/ "attacks" \notin DOMAIN st.data \/ st.data["attacks"].t # "list"
    THEN st
    ELSE LET as == st.data["attacks"].items
         IN  IF \E i \in DOMAIN as : as[i].t = "dict" /\ ~Accepts("Attack", as[i].v)
             THEN [st EXCEPT !.err = "TypeError"]
             ELSE [st EXCEPT !.data =
                      Put(st.data, "attacks",
                          ListV([i \in DOMAIN as |->
                                    IF as[i].t = "dict" THEN New("Attack", as[i].v)
                                    ELSE as[i]]))]

\* the loop over the nine level_N_slots of sc, from `level` on
RECURSIVE ConvertSlots(_, _)
ConvertSlots(st, level) ==
    IF level > 9 \/ st.err # "none" THEN st
    ELSE ConvertSlots(ConvertNested(st, SlotsKey(level), "SpellSlots"), level + 1)

\* sc aliases data["spellcasting"]: what the loop rewrote stays in data even
\* when a later SpellSlots(**...) or Spellcasting(**sc) raises
ConvertSpellcasting(st) ==
    IF st.err # "none" \/ "spellcasting" \notin DOMAIN st.data
       \/ st.data["spellcasting"].t # "dict"
    THEN st
    ELSE LET sc == ConvertSlots([data |-> st.data["spellcasting"].v, err |-> "none"], 1)
             kept == Put(st.data, "spellcasting", DictV(sc.data))
         IN  IF sc.err # "none" THEN [data |-> kept, err |-> sc.err]
             ELSE IF ~Accepts("Spellcasting", sc.data)
                  THEN [data |-> kept, err |-> "TypeError"]
                  ELSE [data |-> Put(st.data, "spellcasting", New("Spellcasting", sc.data)),
                        err |-> "none"]

\* [data, err, char]: the dict as the call left it, the exception it raised
\* ("none" if it returned) and the Character it returned
character_from_dict(d) ==
    LET s0 == [data |-> d, err |-> "none"]
        s1 == ConvertNested(s0, "ability_scores", "AbilityScores")
        s2 == ConvertNested(s1, "saving_throws", "SavingThrows")
        s3 == ConvertNested(s2, "skills", "Skills")
        s4 == ConvertNested(s3, "death_saves", "DeathSaves")
        s5 == ConvertNested(s4, "currency", "Currency")
        s6 == ConvertNested(s5, "appearance", "Appearance")
        s7 == ConvertAttacks(s6)
        s8 == ConvertSpellcasting(s7)
    IN  IF s8.err # "none" THEN [data |-> s8.data, err |-> s8.err, char |-> None]
        ELSE IF ~Accepts("Character", s8.data)
             THEN [data |-> s8.data, err |-> "TypeError", char |-> None]
             ELSE [data |-> s8.data, err |-> "none", char |-> New("Character", s8.data)]

(***************************************************************************)
(* The field mapper.  Each block of get_field_mapping is the sequence of   *)
(* writes fields[name] = value it performs, in the order of the code.      *)
(***************************************************************************)
\* obj.name
Attr(obj, name) == obj.v[name]

Min(a, b) == IF a < b THEN a ELSE b

\* q[:n]
Prefix(q, n) == SubSeq(q, 1, Min(n, Len(q)))

SKILL_ABILITIES ==
    [acrobatics |-> "dexterity", animal_handling |-> "wisdom",
     arcana |-> "intelligence", athletics |-> "strength",
     deception |-> "charisma", history |-> "intelligence",
     insight |-> "wisdom", intimidation |-> "charisma",
     investigation |-> "intelligence", medicine |-> "wisdom",
     nature |-> "intelligence", perception |-> "wisdom",
     performance |-> "charisma", persuasion |-> "charisma",
     religion |-> "intelligence", sleight_of_hand |-> "dexterity",
     stealth |-> "dexterity", survival |-> "wisdom"]

\* Mutant: the form's names tidied up (trailing space of "Race " dropped)
HeaderWrites_trimmed(char) ==
    << <<"CharacterName", Attr(char, "character_name")>>,
       <<"ClassLevel", Attr(char, "class_level")>>,
       <<"Background", Attr(char, "background")>>,
       <<"PlayerName", Attr(char, "player_name")>>,
       <<"Race", Attr(char, "race")>>,
       <<"Alignment", Attr(char, "alignment")>>,
       <<"XP", Attr(char, "experience_points")>> >>

HeaderWrites(char) ==
    << <<"CharacterName", Attr(char, "character_name")>>,
       <<"ClassLevel", Attr(char, "class_level")>>,
       <<"Background", Attr(char, "background")>>,
       <<"PlayerName", Attr(char, "player_name")>>,
       <<"Race ", Attr(char, "race")>>,
       <<"Alignment", Attr(char, "alignment")>>,
       <<"XP", Attr(char, "experience_points")>> >>

\* str_mod .. cha_mod, as the lookup ability_mods
ability_mods(char) ==
    [a \in Range(AbilityNames) |->
        calculate_modifier(Attr(Attr(char, "ability_scores"), a).n)]

AbilityWrites(char) ==
    LET scores == Attr(char, "ability_scores")
        mods == ability_mods(char)
    IN  << <<"STR", StrV(PyStr(Attr(scores, "strength").n))>>,
           <<"STRmod", StrV(format_modifier(mods["strength"]))>>,
           <<"DEX", StrV(PyStr(Attr(scores, "dexterity").n))>>,
           <<"DEXmod ", StrV(format_modifier(mods["dexterity"]))>>,
           <<"CON", StrV(PyStr(Attr(scores, "constitution").n))>>,
           <<"CONmod", StrV(format_modifier(mods["constitution"]))>>,
           <<"INT", StrV(PyStr(Attr(scores, "intelligence").n))>>,
           <<"INTmod", StrV(format_modifier(mods["intelligence"]))>>,
           <<"WIS", StrV(PyStr(Attr(scores, "wisdom").n))>>,
           <<"WISmod", StrV(format_modifier(mods["wisdom"]))>>,
           <<"CHA", StrV(PyStr(Attr(scores, "charisma").n))>>,
           <<"CHamod", StrV(format_modifier(mods["charisma"]))>> >>

ProfBonusWrites(char) ==
    << <<"ProfBonus", Attr(char, "proficiency_bonus")>> >>
        \o (IF Truthy(Attr(char, "inspiration"))
            THEN << <<"Inspiration", StrV("Yes")>> >>
            ELSE <<>>)

\* field name, ability, attribute of char.saving_throws read as is_proficient
st_field_map ==
    << <<"ST Strength", "strength", "strength">>,
       <<"ST Dexterity", "dexterity", "dexterity">>,
       <<"ST Constitution", "constitution", "constitution">>,
       <<"ST Intelligence", "intelligence", "intelligence">>,
       <<"ST Wisdom", "wisdom", "wisdom">>,
       <<"ST Charisma", "charisma", "charisma">> >>

SaveWrites(char, prof_bonus) ==
    [i \in DOMAIN st_field_map |->
        LET ability_mod == ability_mods(char)[st_field_map[i][2]]
            is_proficient == Attr(Attr(char, "saving_throws"), st_field_map[i][3])
            save_mod == ability_mod + (IF Truthy(is_proficient) THEN prof_bonus ELSE 0)
        IN  <<st_field_map[i][1], StrV(format_modifier(save_mod))>>]

\* field name, attribute of char.saving_throws
st_checkbox_map ==
    << <<"Check Box 11", "strength">>,
       <<"Check Box 18", "dexterity">>,
       <<"Check Box 19", "constitution">>,
       <<"Check Box 20", "intelligence">>,
       <<"Check Box 21", "wisdom">>,
       <<"Check Box 22", "charisma">> >>

\* the writes of: for field_name, is_proficient in m.items(): if is_proficient: ...
RECURSIVE CheckedBoxes(_, _)
CheckedBoxes(flags, m) ==
    IF m = <<>> THEN <<>>
    ELSE (IF Truthy(Attr(flags, Head(m)[2]))
          THEN << <<Head(m)[1], NameObject("/Yes")>> >>
          ELSE <<>>) \o CheckedBoxes(flags, Tail(m))

\* Mutant: every box is written, with the flag rendered as text
RECURSIVE AllBoxes(_, _)
AllBoxes(flags, m) ==
    IF m = <<>> THEN <<>>
    ELSE << <<Head(m)[1], StrV(IF Truthy(Attr(flags, Head(m)[2])) THEN "true" ELSE "false")>> >>
            \o AllBoxes(flags, Tail(m))

SaveCheckboxWrites_unconditional(char) ==
    AllBoxes(Attr(char, "saving_throws"), st_checkbox_map)

SaveCheckboxWrites(char) == CheckedBoxes(Attr(char, "saving_throws"), st_checkbox_map)

\* field name, attribute of char.skills
skill_field_map ==
    << <<"Acrobatics", "acrobatics">>,
       <<"Animal", "animal_handling">>,
       <<"Arcana", "arcana">>,
       <<"Athletics", "athletics">>,
       <<"Deception ", "deception">>,
       <<"History ", "history">>,
       <<"Insight", "insight">>,
       <<"Intimidation", "intimidation">>,
       <<"Investigation ", "investigation">>,
       <<"Medicine", "medicine">>,
       <<"Nature", "nature">>,
       <<"Perception ", "perception">>,
       <<"Performance", "performance">>,
       <<"Persuasion", "persuasion">>,
       <<"Religion", "religion">>,
       <<"SleightofHand", "sleight_of_hand">>,
       <<"Stealth ", "stealth">>,
       <<"Survival", "survival">> >>

\* Mutant: the proficiency bonus is added whether or not the skill is proficient
SkillWrites_always_proficient(char, prof_bonus) ==
    [i \in DOMAIN skill_field_map |->
        LET skill_attr == skill_field_map[i][2]
            ability_mod == ability_mods(char)[SKILL_ABILITIES[skill_attr]]
        IN  <<skill_field_map[i][1], StrV(format_modifier(ability_mod + prof_bonus))>>]

SkillWrites(char, prof_bonus) ==
    [i \in DOMAIN skill_field_map |->
        LET skill_attr == skill_field_map[i][2]
            is_proficient == Attr(Attr(char, "skills"), skill_attr)
            governing_ability == SKILL_ABILITIES[skill_attr]
            ability_mod == ability_mods(char)[governing_ability]
            skill_mod == ability_mod + (IF Truthy(is_proficient) THEN prof_bonus ELSE 0)
        IN  <<skill_field_map[i][1], StrV(format_modifier(skill_mod))>>]

\* field name, attribute of char.skills
skill_checkbox_map ==
    << <<"Check Box 23", "acrobatics">>,
       <<"Check Box 24", "animal_handling">>,
       <<"Check Box 25", "arcana">>,
       <<"Check Box 26", "athletics">>,
       <<"Check Box 27", "deception">>,
       <<"Check Box 28", "history">>,
       <<"Check Box 29", "insight">>,
       <<"Check Box 30", "intimidation">>,
       <<"Check Box 31", "investigation">>,
       <<"Check Box 32", "medicine">>,
       <<"Check Box 33", "nature">>,
       <<"Check Box 34", "perception">>,
       <<"Check Box 35", "performance">>,
       <<"Check Box 36", "persuasion">>,
       <<"Check Box 37", "religion">>,
       <<"Check Box 38", "sleight_of_hand">>,
       <<"Check Box 39", "stealth">>,
       <<"Check Box 40", "survival">> >>

SkillCheckboxWrites(char) == CheckedBoxes(Attr(char, "skills"), skill_checkbox_map)

CombatWrites(char) ==
    << <<"Passive", Attr(char, "passive_perception")>>,
       <<"AC", Attr(char, "armor_class")>>,
       <<"Initiative", Attr(char, "initiative")>>,
       <<"Speed", Attr(char, "speed")>>,
       <<"HPMax", Attr(char, "hit_point_maximum")>>,
       <<"HPCurrent", Attr(char, "current_hit_points")>>,
       <<"HPTemp", Attr(char, "temporary_hit_points")>>,
       <<"HDTotal", Attr(char, "hit_dice_total")>>,
       <<"HD", Attr(char, "hit_dice")>> >>

\* the three field names of attack slot 1, 2, 3
attack_fields ==
    << <<"Wpn Name", "Wpn1 AtkBonus", "Wpn1 Damage">>,
       <<"Wpn Name 2", "Wpn2 AtkBonus ", "Wpn2 Damage ">>,
       <<"Wpn Name 3", "Wpn3 AtkBonus  ", "Wpn3 Damage ">> >>

AttackSlotWrites(attacks, i) ==
    IF Len(attacks) > i - 1
    THEN << <<attack_fields[i][1], Attr(attacks[i], "name")>>,
            <<attack_fields[i][2], Attr(attacks[i], "attack_bonus")>>,
            <<attack_fields[i][3], Attr(attacks[i], "damage_type")>> >>
    ELSE <<>>

\* Mutant: the third slot repeats the second attack
AttackWrites_repeated(char) ==
    LET attacks == Attr(char, "attacks").items
    IN  AttackSlotWrites(attacks, 1) \o AttackSlotWrites(attacks, 2)
            \o (IF Len(attacks) > 2
                THEN << <<attack_fields[3][1], Attr(attacks[2], "name")>>,
                        <<attack_fields[3][2], Attr(attacks[2], "attack_bonus")>>,
                        <<attack_fields[3][3], Attr(attacks[2], "damage_type")>> >>
                ELSE <<>>)

AttackWrites(char) ==
    LET attacks == Attr(char, "attacks").items
    IN  AttackSlotWrites(attacks, 1) \o AttackSlotWrites(attacks, 2)
            \o AttackSlotWrites(attacks, 3)

\* str(x) if x else ""
StrUnlessZero(x) == IF Truthy(x) THEN StrV(PyStr(x.n)) ELSE StrV("")

\* Mutant: a zero is printed like any other amount
CurrencyWrites_zero_shown(char) ==
    LET currency == Attr(char, "currency")
    IN  << <<"CP", StrV(PyStr(Attr(currency, "cp").n))>>,
           <<"SP", StrV(PyStr(Attr(currency, "sp").n))>>,
           <<"EP", StrV(PyStr(Attr(currency, "ep").n))>>,
           <<"GP", StrV(PyStr(Attr(currency, "gp").n))>>,
           <<"PP", StrV(PyStr(Attr(currency, "pp").n))>> >>

CurrencyWrites(char) ==
    LET currency == Attr(char, "currency")
    IN  << <<"CP", StrUnlessZero(Attr(currency, "cp"))>>,
           <<"SP", StrUnlessZero(Attr(currency, "sp"))>>,
           <<"EP", StrUnlessZero(Attr(currency, "ep"))>>,
           <<"GP", StrUnlessZero(Attr(currency, "gp"))>>,
           <<"PP", StrUnlessZero(Attr(currency, "pp"))>> >>

\* Equipment, personality, proficiencies and features on page 1
Page1TextWrites(char) ==
    << <<"Equipment", Attr(char, "equipment")>>,
       <<"PersonalityTraits ", Attr(char, "personality_traits")>>,
       <<"Ideals", Attr(char, "ideals")>>,
       <<"Bonds", Attr(char, "bonds")>>,
       <<"Flaws", Attr(char, "flaws")>>,
       <<"ProficienciesLang", Attr(char, "other_proficiencies_languages")>>,
       <<"Features and Traits", Attr(char, "features_traits")>> >>

\* Mutant: the free-text appearance is written to a field of page 2
Page2Writes_with_description(char) ==
    LET appearance == Attr(char, "appearance")
    IN  << <<"CharacterName 2", Attr(char, "character_name")>>,
           <<"Age", Attr(appearance, "age")>>,
           <<"Height", Attr(appearance, "height")>>,
           <<"Weight", Attr(appearance, "weight")>>,
           <<"Eyes", Attr(appearance, "eyes")>>,
           <<"Skin", Attr(appearance, "skin")>>,
           <<"Hair", Attr(appearance, "hair")>>,
           <<"CharacterAppearance", Attr(char, "character_appearance")>>,
           <<"Backstory", Attr(char, "character_backstory")>>,
           <<"Allies", Attr(char, "allies_organizations")>>,
           <<"FactionName", Attr(char, "allies_organizations_name")>>,
           <<"Feat+Traits", Attr(char, "additional_features_traits")>>,
           <<"Treasure", Attr(char, "treasure")>> >>

Page2Writes(char) ==
    LET appearance == Attr(char, "appearance")
    IN  << <<"CharacterName 2", Attr(char, "character_name")>>,
           <<"Age", Attr(appearance, "age")>>,
           <<"Height", Attr(appearance, "height")>>,
           <<"Weight", Attr(appearance, "weight")>>,
           <<"Eyes", Attr(appearance, "eyes")>>,
           <<"Skin", Attr(appearance, "skin")>>,
           <<"Hair", Attr(appearance, "hair")>>,
           <<"Backstory", Attr(char, "character_backstory")>>,
           <<"Allies", Attr(char, "allies_organizations")>>,
           <<"FactionName", Attr(char, "allies_organizations_name")>>,
           <<"Feat+Traits", Attr(char, "additional_features_traits")>>,
           <<"Treasure", Attr(char, "treasure")>> >>

SpellcastingHeaderWrites(char) ==
    LET spellcasting == Attr(char, "spellcasting")
    IN  << <<"Spellcasting Class 2", Attr(spellcasting, "spellcasting_class")>>,
           <<"SpellcastingAbility 2", Attr(spellcasting, "spellcasting_ability")>>,
           <<"SpellSaveDC  2", Attr(spellcasting, "spell_save_dc")>>,
           <<"SpellAtkBonus 2", Attr(spellcasting, "spell_attack_bonus")>> >>

cantrip_fields ==
    <<"Spells 1014", "Spells 1015", "Spells 1016", "Spells 1017",
      "Spells 1018", "Spells 1019", "Spells 1020", "Spells 1021">>

CantripWrites(char) ==
    LET shown == Prefix(Attr(Attr(char, "spellcasting"), "cantrips").items, 8)
    IN  [i \in DOMAIN shown |-> <<cantrip_fields[i], shown[i]>>]

slot_field_offset == 18

RECURSIVE SlotWrites(_, _)
SlotWrites(char, level) ==
    IF level > 9 THEN <<>>
    ELSE LET field_num == level + slot_field_offset
             slots == Attr(Attr(char, "spellcasting"), SlotsKey(level))
         IN  (IF Truthy(Attr(slots, "total"))
              THEN << <<"SlotsTotal " \o PyStr(field_num), StrV(PyStr(Attr(slots, "total").n))>> >>
              ELSE <<>>)
             \o (IF Truthy(Attr(slots, "expended"))
                 THEN << <<"SlotsRemaining " \o PyStr(field_num),
                           StrV(PyStr(Attr(slots, "expended").n))>> >>
                 ELSE <<>>)
             \o SlotWrites(char, level + 1)

\* Mutant: the level-1 spell slots start at the first cantrip field
level_1_spell_fields_from_1014 == [i \in 1..13 |-> "Spells " \o PyStr(1013 + i)]

level_1_spell_fields == [i \in 1..13 |-> "Spells " \o PyStr(1021 + i)]

Level1SpellWrites(char) ==
    LET shown == Prefix(Attr(Attr(char, "spellcasting"), "level_1_spells").items, 13)
    IN  [i \in DOMAIN shown |-> <<level_1_spell_fields[i], shown[i]>>]

\* every write of get_field_mapping, in program order
Writes(char, prof_bonus) ==
    HeaderWrites(char) \o AbilityWrites(char) \o ProfBonusWrites(char)
        \o SaveWrites(char, prof_bonus) \o SaveCheckboxWrites(char)
        \o SkillWrites(char, prof_bonus) \o SkillCheckboxWrites(char)
        \o CombatWrites(char) \o AttackWrites(char)
        \o << <<"AttacksSpellcasting", Attr(char, "attacks_notes")>> >>
        \o CurrencyWrites(char) \o Page1TextWrites(char) \o Page2Writes(char)
        \o SpellcastingHeaderWrites(char) \o CantripWrites(char)
        \o SlotWrites(char, 1) \o Level1SpellWrites(char)

\* the dict a sequence of writes leaves: a later write to a key replaces an earlier
RECURSIVE DictOf(_, _)
DictOf(ws, n) ==
    IF n = 0 THEN [k \in {} |-> None]
    ELSE (ws[n][1] :> ws[n][2]) @@ DictOf(ws, n - 1)

\* the exception the attack block raises, "none" if it completes
AttacksError(attacks) ==
    CASE attacks.t = "list" ->
            IF \E i \in 1..Min(3, Len(attacks.items)) : ~IsInstance(attacks.items[i], "Attack")
            THEN "AttributeError" ELSE "none"
      [] attacks.t = "str" -> IF attacks.s = "" THEN "none" ELSE "AttributeError"
      [] attacks.t = "dict" -> IF DOMAIN attacks.v = {} THEN "none" ELSE "KeyError"
      [] OTHER -> "TypeError"

\* the exception the spellcasting blocks raise, "none" if they complete
SpellcastingError(sc) ==
    IF ~IsInstance(sc, "Spellcasting") THEN "AttributeError"
    ELSE IF Attr(sc, "cantrips").t \notin {"list", "str"} THEN "TypeError"
    ELSE IF \E l \in Levels : ~IsInstance(Attr(sc, SlotsKey(l)), "SpellSlots")
         THEN "AttributeError"
    ELSE IF Attr(sc, "level_1_spells").t \notin {"list", "str"} THEN "TypeError"
    ELSE "none"

\* the first exception get_field_mapping raises on char, "none" if it returns
MappingError(char) ==
    IF ~IsInstance(Attr(char, "ability_scores"), "AbilityScores") THEN "AttributeError"
    ELSE IF ~parse_proficiency_bonus(Attr(char, "proficiency_bonus").s).ok THEN "ValueError"
    ELSE IF ~IsInstance(Attr(char, "saving_throws"), "SavingThrows") THEN "AttributeError"
    ELSE IF ~IsInstance(Attr(char, "skills"), "Skills") THEN "AttributeError"
    ELSE IF AttacksError(Attr(char, "attacks")) # "none"
         THEN AttacksError(Attr(char, "attacks"))
    ELSE IF ~IsInstance(Attr(char, "currency"), "Currency") THEN "AttributeError"
    ELSE IF ~IsInstance(Attr(char, "appearance"), "Appearance") THEN "AttributeError"
    ELSE SpellcastingError(Attr(char, "spellcasting"))

\* [err, fields]: the exception raised ("none" if it returned) and the dict returned
get_field_mapping(char) ==
    LET e == MappingError(char)
    IN  IF e # "none" THEN [err |-> e, fields |-> None]
        ELSE LET prof_bonus == parse_proficiency_bonus(Attr(char, "proficiency_bonus").s).val
                 ws == Writes(char, prof_bonus)
             IN  [err |-> "none", fields |-> DictV(DictOf(ws, Len(ws)))]

(***************************************************************************)
(* The character files of the fill runs: parsed JSON documents.            *)
(***************************************************************************)
\* asdict of a dataclass instance, nested instances and lists included
RECURSIVE to_serializable(_)
to_serializable(obj) ==
    IF obj.t \in ClassNames
    THEN DictV([f \in DOMAIN obj.v |-> to_serializable(obj.v[f])])
    ELSE IF obj.t = "list"
         THEN ListV([i \in DOMAIN obj.items |-> to_serializable(obj.items[i])])
         ELSE obj

\* (the em dash in flaws is written -- : the strings here are ASCII)
get_example_character ==
    New("Character",
        [character_name |-> StrV("Thorn Ironbark"),
         class_level |-> StrV("Fighter 5"),
         background |-> StrV("Soldier"),
         player_name |-> StrV("Example Player"),
         race |-> StrV("Half-Orc"),
         alignment |-> StrV("Lawful Good"),
         experience_points |-> StrV("6500"),
         ability_scores |->
            New("AbilityScores",
                [strength |-> IntV(18), dexterity |-> IntV(14),
                 constitution |-> IntV(16), intelligence |-> IntV(10),
                 wisdom |-> IntV(12), charisma |-> IntV(8)]),
         inspiration |-> BoolV(FALSE),
         proficiency_bonus |-> StrV("+3"),
         saving_throws |->
            New("SavingThrows", [strength |-> BoolV(TRUE), constitution |-> BoolV(TRUE)]),
         skills |->
            New("Skills",
                [athletics |-> BoolV(TRUE), intimidation |-> BoolV(TRUE),
                 perception |-> BoolV(TRUE), survival |-> BoolV(TRUE)]),
         passive_perception |-> StrV("14"),
         armor_class |-> StrV("18"),
         initiative |-> StrV("+2"),
         speed |-> StrV("30 ft"),
         hit_point_maximum |-> StrV("44"),
         current_hit_points |-> StrV("44"),
         temporary_hit_points |-> StrV(""),
         hit_dice_total |-> StrV("5d10"),
         hit_dice |-> StrV("5d10"),
         death_saves |-> New("DeathSaves", [successes |-> IntV(0), failures |-> IntV(0)]),
         attacks |->
            ListV(<<New("Attack", [name |-> StrV("Greatsword"), attack_bonus |-> StrV("+7"),
                                   damage_type |-> StrV("2d6+4 slashing")]),
                    New("Attack", [name |-> StrV("Javelin"), attack_bonus |-> StrV("+7"),
                                   damage_type |-> StrV("1d6+4 piercing")]),
                    New("Attack", [name |-> StrV("Handaxe"), attack_bonus |-> StrV("+7"),
                                   damage_type |-> StrV("1d6+4 slashing")])>>),
         attacks_notes |-> StrV("Extra Attack: Can attack twice per Attack action.\nSecond Wind: Regain 1d10+5 HP as bonus action (1/short rest)."),
         currency |->
            New("Currency", [cp |-> IntV(0), sp |-> IntV(15), ep |-> IntV(0),
                             gp |-> IntV(75), pp |-> IntV(0)]),
         equipment |-> StrV("Greatsword\nChain mail\n2 Handaxes\n4 Javelins\nExplorer's pack\nInsignia of rank\nTrophy from fallen enemy\nDice set\nCommon clothes"),
         personality_traits |-> StrV("I face problems head-on. A simple, direct solution is the best path to success."),
         ideals |-> StrV("Responsibility. I do what I must and obey just authority."),
         bonds |-> StrV("Those who fight beside me are worth dying for."),
         flaws |-> StrV("I made a terrible mistake in battle that cost many lives--I would do anything to keep that secret."),
         other_proficiencies_languages |-> StrV("Languages: Common, Orc\n\nArmor: All armor, shields\nWeapons: Simple weapons, martial weapons\nTools: Dice set, vehicles (land)"),
         features_traits |-> StrV("Relentless Endurance\nSavage Attacks\nFighting Style: Great Weapon Fighting\nSecond Wind\nAction Surge (1 use)\nExtra Attack"),
         appearance |->
            New("Appearance",
                [age |-> StrV("28"), height |-> StrV("6'4\""), weight |-> StrV("250 lbs"),
                 eyes |-> StrV("Yellow"), skin |-> StrV("Gray-green"), hair |-> StrV("Black")]),
         character_appearance |-> StrV("Massive half-orc with prominent tusks and numerous battle scars. Wears well-maintained chain mail with a military insignia."),
         character_backstory |-> StrV("Thorn served in the king's army for a decade before a catastrophic battle changed everything..."),
         allies_organizations |-> StrV("The Iron Legion (former military unit)"),
         allies_organizations_name |-> StrV("The Iron Legion"),
         additional_features_traits |-> StrV(""),
         treasure |-> StrV("A lucky gold coin from my first battle")])

\* the document --example prints
ExampleFile == to_serializable(get_example_character).v

EmptyFile == [k \in {} |-> None]

\* the six scores every ability takes in turn
TestScores == <<1, 7, 10, 14, 17, MaxScore>>

ScoreRows ==
    {[a \in Range(AbilityNames) |->
        IntV(TestScores[(((CHOOSE i \in 1..6 : AbilityNames[i] = a) + r) % 6) + 1])]
     : r \in 0..5}

FileBonusTexts == {"", "+0", "+3", "2", "-1", "abc", "+", "1+2"}

AllTrue(names) == [k \in Range(names) |-> BoolV(TRUE)]

\* the proficiency flags of a file: none, all, one alone, all but one
FlagDicts ==
    {EmptyFile}
        \cup {("saving_throws" :> DictV(AllTrue(AbilityNames)))
                @@ ("skills" :> DictV(AllTrue(SkillNames)))}
        \cup {"saving_throws" :> DictV(a :> BoolV(TRUE)) : a \in Range(AbilityNames)}
        \cup {"skills" :> DictV(k :> BoolV(TRUE)) : k \in Range(SkillNames)}
        \cup {"saving_throws" :> DictV([AllTrue(AbilityNames) EXCEPT ![a] = BoolV(FALSE)])
              : a \in Range(AbilityNames)}
        \cup {"skills" :> DictV([AllTrue(SkillNames) EXCEPT ![k] = BoolV(FALSE)])
              : k \in Range(SkillNames)}

StatFiles ==
    {("ability_scores" :> DictV(score_row)) @@ ("proficiency_bonus" :> StrV(b)) @@ flags
     : score_row \in ScoreRows, b \in FileBonusTexts, flags \in FlagDicts}

TestAttack(i) ==
    DictV([name |-> StrV("attack " \o PyStr(i)),
           attack_bonus |-> StrV("+" \o PyStr(i)),
           damage_type |-> StrV(PyStr(i) \o "d6")])

TestNames(prefix, n) == [i \in 1..n |-> StrV(prefix \o PyStr(i))]

ListFiles ==
    {("attacks" :> ListV([i \in 1..la |-> TestAttack(i)]))
        @@ ("spellcasting" :>
                DictV(("cantrips" :> ListV(TestNames("cantrip ", lc)))
                      @@ ("level_1_spells" :> ListV(TestNames("spell ", ls)))))
     : la \in 0..MaxAttacks, lc \in 0..MaxCantrips, ls \in 0..MaxSpells}

CurrencyAmounts == {0, 15, 75}

CurrencyFiles ==
    {"currency" :> DictV([cp |-> IntV(c), sp |-> IntV(s), ep |-> IntV(e),
                          gp |-> IntV(g), pp |-> IntV(p)])
     : c \in CurrencyAmounts, s \in CurrencyAmounts, e \in CurrencyAmounts,
       g \in CurrencyAmounts, p \in CurrencyAmounts}

SlotFiles ==
    {"spellcasting" :> DictV(SlotsKey(l) :> DictV([total |-> IntV(tot), expended |-> IntV(ex)]))
     : l \in Levels, tot \in {0, 2, 4}, ex \in {0, 1}}

\* one text field filled in an otherwise empty file, or blanked in the example
TextFiles ==
    {f :> StrV("x") : f \in CharacterTextFields \ {"proficiency_bonus"}}
        \cup {[ExampleFile EXCEPT ![f] = StrV("")]
              : f \in CharacterTextFields \ {"proficiency_bonus"}}
        \cup {"appearance" :> DictV(f :> StrV("x")) : f \in DOMAIN AppearanceDefaults}
        \cup {"spellcasting" :> DictV(f :> StrV("x")) : f \in SpellcastingTextFields}
        \cup {"inspiration" :> BoolV(TRUE)}

Scalars == {IntV(5), StrV("x")}

\* files in which a nested shape is not the mapping (or list of mappings) expected
MalformedFiles ==
    {k :> x : k \in DOMAIN NestedClass \cup {"attacks"}, x \in Scalars}
        \cup {k :> ListV(<<>>) : k \in DOMAIN NestedClass}
        \cup {"attacks" :> ListV([i \in 1..4 |-> IF i = p THEN x ELSE TestAttack(i)])
              : p \in 1..4, x \in Scalars}
        \cup {"spellcasting" :> DictV(SlotsKey(l) :> x) : l \in Levels, x \in Scalars}

\* files with a key that is no field of the dataclass it is passed to
UnknownKeyFiles ==
    {"nickname" :> StrV("x")}
        \cup {k :> DictV("bogus" :> IntV(1)) : k \in DOMAIN NestedClass}
        \cup {"attacks" :> ListV(<<TestAttack(1), DictV("bogus" :> IntV(1))>>)}
        \cup {"spellcasting" :> DictV(SlotsKey(l) :> DictV("bogus" :> IntV(1))) : l \in {1, 5}}
        \cup {("ability_scores" :> DictV("strength" :> IntV(MaxScore)))
                @@ ("spellcasting" :>
                        DictV((SlotsKey(1) :> DictV("total" :> IntV(2)))
                              @@ (SlotsKey(2) :> DictV("bogus" :> IntV(1)))))}

\* the example file with one key added that is no field, at each level
ExtraKeyFiles ==
    {("nickname" :> StrV("x")) @@ ExampleFile}
        \cup {[ExampleFile EXCEPT ![k] = DictV(Put(@.v, "bogus", IntV(1)))]
              : k \in DOMAIN NestedClass}
        \cup {[ExampleFile EXCEPT !["attacks"] =
                    ListV([i \in 1..4 |->
                              IF i = p THEN DictV(Put(TestAttack(i).v, "bogus", IntV(1)))
                              ELSE TestAttack(i)])]
              : p \in 1..4}
        \cup {[ExampleFile EXCEPT !["spellcasting"] =
                    DictV(Put(@.v, SlotsKey(l),
                              DictV([total |-> IntV(2), expended |-> IntV(1),
                                     bogus |-> IntV(1)])))]
              : l \in Levels}
        \cup {"spellcasting" :> DictV("level_10_slots" :> DictV("total" :> IntV(2)))}
        \cup {(k :> DictV("bogus" :> IntV(1))) @@ (j :> x)
              : k \in DOMAIN NestedClass, j \in {"attacks", "race"}, x \in Scalars}

\* files that set what the form does not show: death saves, the free-text
\* appearance, the spell lists of levels 2-9, a fourth attack
UnrenderedFiles ==
    {"death_saves" :> DictV([successes |-> IntV(s), failures |-> IntV(f)])
     : s \in 0..3, f \in 0..3}
        \cup {[ExampleFile EXCEPT !["character_appearance"] = StrV(x)] : x \in {"", "x"}}
        \cup {"spellcasting" :> DictV(SpellsKey(l) :> ListV(TestNames("spell ", n)))
              : l \in 2..9, n \in 1..2}
        \cup {[ExampleFile EXCEPT
                  !["death_saves"] = DictV([successes |-> IntV(1), failures |-> IntV(2)]),
                  !["attacks"] = ListV([i \in 1..4 |-> TestAttack(i)]),
                  !["spellcasting"] =
                      DictV(Put(@.v, SpellsKey(l), ListV(TestNames("spell ", 2))))]
              : l \in 2..9}

CharacterFiles ==
    {EmptyFile, ExampleFile} \cup StatFiles \cup ListFiles \cup CurrencyFiles
        \cup SlotFiles \cup TextFiles \cup MalformedFiles \cup UnknownKeyFiles \cup ExtraKeyFiles
        \cup UnrenderedFiles

(***************************************************************************)
(* The fill run: main loads the file, deserializes it and calls fill_pdf,  *)
(* which maps the character and writes the output.                         *)
(***************************************************************************)
Init ==
    /\ pc = "start"
    /\ input = None
    /\ char_data = None
    /\ character = None
    /\ field_data = None
    /\ err = "none"
    /\ output = None
    /\ call = [fn |-> "none", arg |-> None]
    /\ ret = [ok |-> TRUE, val |-> None]
    /\ NoGrid

\* with open(args.character_json) as f: char_data = json.load(f)
LoadJson ==
    /\ pc = "start"
    /\ \E doc \in CharacterFiles :
        /\ input' = DictV(doc)
        /\ char_data' = DictV(doc)
    /\ pc' = "loaded"
    /\ UNCHANGED <<character, field_data, err, output, call, ret, grid>>

\* char = character_from_dict(char_data)
CharacterFromDict ==
    /\ pc = "loaded"
    /\ LET r == character_from_dict(char_data.v)
       IN  /\ char_data' = DictV(r.data)
           /\ character' = r.char
           /\ err' = r.err
           /\ pc' = IF r.err = "none" THEN "deserialized" ELSE "failed"
    /\ UNCHANGED <<input, field_data, output, call, ret, grid>>

\* Mutant: the output file is opened before the fields are mapped
GetFieldMapping_output_opened ==
    /\ pc = "deserialized"
    /\ LET r == get_field_mapping(character)
       IN  /\ field_data' = r.fields
           /\ err' = r.err
           /\ pc' = IF r.err = "none" THEN "mapped" ELSE "failed"
    /\ output' = DictV(EmptyFile)
    /\ UNCHANGED <<input, char_data, character, call, ret, grid>>

\* fill_pdf up to field_data = get_field_mapping(char)
GetFieldMapping ==
    /\ pc = "deserialized"
    /\ LET r == get_field_mapping(character)
       IN  /\ field_data' = r.fields
           /\ err' = r.err
           /\ pc' = IF r.err = "none" THEN "mapped" ELSE "failed"
    /\ UNCHANGED <<input, char_data, character, output, call, ret, grid>>

\* fill_pdf from update_page_form_field_values to writer.write(f)
WriteOutput ==
    /\ pc = "mapped"
    /\ output' = field_data
    /\ pc' = "done"
    /\ UNCHANGED <<input, char_data, character, field_data, err, call, ret, grid>>

Next ==
    \/ LoadJson
    \/ CharacterFromDict
    \/ GetFieldMapping
    \/ WriteOutput

Spec == Init /\ [][Next]_vars

(***************************************************************************)
(* Unit runs: one helper applied to one argument.                          *)
(***************************************************************************)
Scores == 1..MaxScore

Mods == (0 - MaxMod)..MaxMod

BonusAlphabet == {"+", "-", "1", "2", "a", " ", "_"}

RECURSIVE TextsUpTo(_)
TextsUpTo(n) ==
    IF n = 0 THEN {""}
    ELSE LET shorter == TextsUpTo(n - 1)
         IN  shorter \cup {s \o c : s \in shorter, c \in BonusAlphabet}

\* the texts a unit run parses: every short text over the alphabet, and the
\* decimal forms "n" and "+n" of the bonuses up to MaxBonus
BonusTexts ==
    TextsUpTo(MaxBonusLen)
        \cup {PyStr(n) : n \in 0..MaxBonus}
        \cup {"+" \o PyStr(n) : n \in 0..MaxBonus}

NoCall == [fn |-> "none", arg |-> None]

NoReturn == [ok |-> TRUE, val |-> None]

InitUnit ==
    /\ pc = "start"
    /\ input = None
    /\ char_data = None
    /\ character = None
    /\ field_data = None
    /\ err = "none"
    /\ output = None
    /\ call = NoCall
    /\ ret = NoReturn
    /\ NoGrid

CallCalculateModifier ==
    \E score \in Scores :
        /\ call = NoCall
        /\ call' = [fn |-> "calculate_modifier", arg |-> IntV(score)]
        /\ ret' = [ok |-> TRUE, val |-> IntV(calculate_modifier(score))]
        /\ UNCHANGED <<pc, input, char_data, character, field_data, err, output, grid>>

CallFormatModifier ==
    \E mod \in Mods :
        /\ call = NoCall
        /\ call' = [fn |-> "format_modifier", arg |-> IntV(mod)]
        /\ ret' = [ok |-> TRUE, val |-> StrV(format_modifier(mod))]
        /\ UNCHANGED <<pc, input, char_data, character, field_data, err, output, grid>>

CallParseProficiencyBonus ==
    \E bonus_str \in BonusTexts :
        LET r == parse_proficiency_bonus(bonus_str)
        IN  /\ call = NoCall
            /\ call' = [fn |-> "parse_proficiency_bonus", arg |-> StrV(bonus_str)]
            /\ ret' = IF r.ok THEN [ok |-> TRUE, val |-> IntV(r.val)]
                              ELSE [ok |-> FALSE, val |-> StrV("ValueError")]
            /\ UNCHANGED <<pc, input, char_data, character, field_data, err, output, grid>>

NextUnit ==
    \/ CallCalculateModifier
    \/ CallFormatModifier
    \/ CallParseProficiencyBonus

SpecFn == InitUnit /\ [][NextUnit]_vars

(***************************************************************************)
(* Claims about the helpers, checked on the unit runs (SpecFn).            *)
(***************************************************************************)
RECURSIVE OnlyDigits(_)
OnlyDigits(s) == s = "" \/ (IsDigit(Head(s)) /\ OnlyDigits(Tail(s)))

Abs(n) == IF n < 0 THEN 0 - n ELSE n

\* C2: for every score s in 1..30, calculate_modifier(s) is the floor of
\* (s - 10) / 2, i.e. the one integer m with 2m <= s - 10 <= 2m + 1, so that
\* scores below 10 round down: 7 gives -2, 1 gives -5, 9 gives -1.
C2_ModifierIsFloor ==
    call.fn = "calculate_modifier" =>
        LET s == call.arg.n
            m == ret.val.n
        IN  /\ ret.ok
            /\ 2 * m <= s - 10
            /\ s - 10 <= 2 * m + 1
            /\ (s = 7 => m = -2)
            /\ (s = 1 => m = -5)
            /\ (s = 9 => m = -1)

\* C2 witness: the score 7 has been given the modifier -2
C2_Witness ==
    /\ call.fn = "calculate_modifier"
    /\ call.arg.n = 7
    /\ ret.val.n = -2

\* an optional single leading "+" followed by an integer literal (what int()
\* itself accepts, not starting with another "+")
WellFormedBonus(s) ==
    LET lit == IF s # "" /\ Head(s) = "+" THEN Tail(s) ELSE s
    IN  lit # "" /\ Head(lit) # "+" /\ PyInt(lit).ok

\* C7: parse_proficiency_bonus fails on every non-empty text that is not an
\* optional single leading "+" followed by an integer literal; it never returns
\* a number for such a text.
C7_NonNumericFailsFast ==
    (/\ call.fn = "parse_proficiency_bonus"
     /\ call.arg.s # ""
     /\ ~WellFormedBonus(call.arg.s)) => ~ret.ok

\* C8: for every n in 0..MaxBonus, parse_proficiency_bonus returns n for the
\* decimal text of n and for that text after a "+", and returns 0 for the empty
\* text: "+3", "+0", "" give 3, 0, 0.
C8_ParseBonus ==
    call.fn = "parse_proficiency_bonus" =>
        /\ call.arg.s = "" => ret = [ok |-> TRUE, val |-> IntV(0)]
        /\ \A n \in 0..MaxBonus :
              call.arg.s \in {PyStr(n), "+" \o PyStr(n)} =>
                  ret = [ok |-> TRUE, val |-> IntV(n)]
        /\ call.arg.s = "+3" => ret.val = IntV(3)
        /\ call.arg.s = "+0" => ret.val = IntV(0)

\* C8 witness: "+3" has been parsed to 3
C8_Witness ==
    /\ call.fn = "parse_proficiency_bonus"
    /\ call.arg.s = "+3"
    /\ ret = [ok |-> TRUE, val |-> IntV(3)]

\* C9: format_modifier(m) is one sign character followed by the decimal digits
\* of |m|: the sign is "+" exactly when m >= 0 (0 gives "+0") and "-" otherwise,
\* and nothing after it is a sign; 3 gives "+3", -2 gives "-2".
C9_FormatModifier ==
    call.fn = "format_modifier" =>
        LET m == call.arg.n
            s == ret.val.s
        IN  /\ Len(s) >= 2
            /\ Head(s) = (IF m >= 0 THEN "+" ELSE "-")
            /\ OnlyDigits(Tail(s))
            /\ (Len(s) = 2 \/ Head(Tail(s)) # "0")
            /\ DigitsValue(Tail(s), 0) = Abs(m)
            /\ (m = 3 => s = "+3")
            /\ (m = -2 => s = "-2")
            /\ (m = 0 => s = "+0")

\* C9 witness: the modifier 0 has been rendered "+0"
C9_Witness ==
    /\ call.fn = "format_modifier"
    /\ call.arg.n = 0
    /\ ret.val.s = "+0"

(***************************************************************************)
(* Claims about the fill run (Spec).                                       *)
(***************************************************************************)
\* get_field_mapping has returned: field_data is the mapping
Mapped == pc \in {"mapped", "done"}

\* the text field of each saving throw and of each skill on the form
SaveFieldOf ==
    [strength |-> "ST Strength", dexterity |-> "ST Dexterity",
     constitution |-> "ST Constitution", intelligence |-> "ST Intelligence",
     wisdom |-> "ST Wisdom", charisma |-> "ST Charisma"]

SkillFieldOf ==
    [acrobatics |-> "Acrobatics", animal_handling |-> "Animal", arcana |-> "Arcana",
     athletics |-> "Athletics", deception |-> "Deception ", history |-> "History ",
     insight |-> "Insight", intimidation |-> "Intimidation",
     investigation |-> "Investigation ", medicine |-> "Medicine", nature |-> "Nature",
     perception |-> "Perception ", performance |-> "Performance",
     persuasion |-> "Persuasion", religion |-> "Religion",
     sleight_of_hand |-> "SleightofHand", stealth |-> "Stealth ", survival |-> "Survival"]

\* the checkbox of each saving throw and of each skill on the form
SaveCheckBoxOf ==
    [strength |-> "Check Box 11", dexterity |-> "Check Box 18",
     constitution |-> "Check Box 19", intelligence |-> "Check Box 20",
     wisdom |-> "Check Box 21", charisma |-> "Check Box 22"]

SkillCheckBoxOf ==
    [k \in Range(SkillNames) |->
        "Check Box " \o PyStr(22 + (CHOOSE i \in DOMAIN SkillNames : SkillNames[i] = k))]

ScoreOf(a) == character.v.ability_scores.v[a].n

SaveFlag(a) == character.v.saving_throws.v[a].b

SkillFlag(k) == character.v.skills.v[k].b

ParsedBonus == parse_proficiency_bonus(character.v.proficiency_bonus.s).val

\* C1: in every mapping returned, each of the 6 save fields and 18 skill fields
\* holds format_modifier(calculate_modifier(score of the governing ability) +
\* (parsed proficiency bonus if the flag is set, else 0)); a save is governed by
\* its own ability, a skill by the ability SKILL_ABILITIES gives it (stealth by
\* dexterity); a proficient skill with modifier +2 and bonus "+3" shows "+5".
C1_SaveAndSkillBonuses ==
    Mapped =>
        /\ \A a \in Range(AbilityNames) :
              field_data.v[SaveFieldOf[a]] =
                  StrV(format_modifier(calculate_modifier(ScoreOf(a))
                                       + (IF SaveFlag(a) THEN ParsedBonus ELSE 0)))
        /\ \A k \in Range(SkillNames) :
              /\ field_data.v[SkillFieldOf[k]] =
                    StrV(format_modifier(calculate_modifier(ScoreOf(SKILL_ABILITIES[k]))
                                         + (IF SkillFlag(k) THEN ParsedBonus ELSE 0)))
              /\ (/\ SkillFlag(k)
                  /\ calculate_modifier(ScoreOf(SKILL_ABILITIES[k])) = 2
                  /\ character.v.proficiency_bonus.s = "+3")
                   => field_data.v[SkillFieldOf[k]] = StrV("+5")
        /\ SKILL_ABILITIES["stealth"] = "dexterity"

\* C1 witness: a proficient stealth with dexterity modifier +2 and bonus "+3"
\* has been mapped to "+5"
C1_Witness ==
    /\ Mapped
    /\ SkillFlag("stealth")
    /\ ScoreOf("dexterity") = 14
    /\ character.v.proficiency_bonus.s = "+3"
    /\ field_data.v["Stealth "] = StrV("+5")

\* the numbered slots of the form, per list
AttackSlotFields ==
    << <<"Wpn Name", "Wpn1 AtkBonus", "Wpn1 Damage">>,
       <<"Wpn Name 2", "Wpn2 AtkBonus ", "Wpn2 Damage ">>,
       <<"Wpn Name 3", "Wpn3 AtkBonus  ", "Wpn3 Damage ">> >>

CantripSlotField(i) == "Spells " \o PyStr(1013 + i)

Level1SlotField(i) == "Spells " \o PyStr(1021 + i)

\* char with its three rendered lists cut to the number of slots
Truncated(c) ==
    [c EXCEPT !.v["attacks"] = ListV(Prefix(@.items, 3)),
              !.v["spellcasting"].v["cantrips"] = ListV(Prefix(@.items, 8)),
              !.v["spellcasting"].v["level_1_spells"] = ListV(Prefix(@.items, 13))]

\* every nested field of the Character holds what its declared type says
WellFormed(c) ==
    /\ \A f \in DOMAIN NestedClass : IsInstance(c.v[f], NestedClass[f])
    /\ c.v.attacks.t = "list"
    /\ \A i \in DOMAIN c.v.attacks.items : IsInstance(c.v.attacks.items[i], "Attack")
    /\ \A l \in Levels : IsInstance(c.v.spellcasting.v[SlotsKey(l)], "SpellSlots")

\* C3: for attacks (3 slots), cantrips (8) and level-1 spells (13), with a list
\* of any length L and N slots: entry i is in slot i for i <= min(L, N), the keys
\* of the slots after min(L, N) are absent, the entries after the N-th change
\* nothing in the output, and no list length makes the mapper raise.
C3_ListsFillSlots ==
    /\ Mapped =>
        LET attacks == character.v.attacks.items
            cantrips == character.v.spellcasting.v.cantrips.items
            spells == character.v.spellcasting.v.level_1_spells.items
        IN  /\ \A i \in 1..3 :
                  IF i <= Len(attacks)
                  THEN /\ field_data.v[AttackSlotFields[i][1]] = attacks[i].v.name
                       /\ field_data.v[AttackSlotFields[i][2]] = attacks[i].v.attack_bonus
                       /\ field_data.v[AttackSlotFields[i][3]] = attacks[i].v.damage_type
                  ELSE Range(AttackSlotFields[i]) \cap DOMAIN field_data.v = {}
            /\ \A i \in 1..8 :
                  IF i <= Len(cantrips)
                  THEN field_data.v[CantripSlotField(i)] = cantrips[i]
                  ELSE CantripSlotField(i) \notin DOMAIN field_data.v
            /\ \A i \in 1..13 :
                  IF i <= Len(spells)
                  THEN field_data.v[Level1SlotField(i)] = spells[i]
                  ELSE Level1SlotField(i) \notin DOMAIN field_data.v
            /\ field_data = get_field_mapping(Truncated(character)).fields
    /\ (pc = "failed" /\ character # None) =>
          ~(WellFormed(character)
            /\ parse_proficiency_bonus(character.v.proficiency_bonus.s).ok)

\* C3 witness: a character with more than 3 attacks, 8 cantrips and 13 level-1
\* spells has been mapped, its third attack in the third slot
C3_Witness ==
    /\ Mapped
    /\ Len(character.v.attacks.items) > 4
    /\ Len(character.v.spellcasting.v.cantrips.items) > 8
    /\ Len(character.v.spellcasting.v.level_1_spells.items) > 13
    /\ field_data.v["Wpn Name 3"] = StrV("attack 3")
    /\ field_data.v["Spells 1034"] = StrV("spell 13")

CheckBoxNames ==
    Range(SaveCheckBoxOf) \cup Range(SkillCheckBoxOf)

\* C4: in every mapping returned, the checkbox of each of the 6 saving-throw and
\* 18 skill flags is a key exactly when the flag is true, its value is then the
\* marker /Yes, and no checkbox holds the flag as a "true" / "false" text.
C4_CheckboxesFollowFlags ==
    Mapped =>
        /\ \A a \in Range(AbilityNames) :
              /\ SaveCheckBoxOf[a] \in DOMAIN field_data.v <=> SaveFlag(a)
              /\ SaveFlag(a) => field_data.v[SaveCheckBoxOf[a]] = NameObject("/Yes")
        /\ \A k \in Range(SkillNames) :
              /\ SkillCheckBoxOf[k] \in DOMAIN field_data.v <=> SkillFlag(k)
              /\ SkillFlag(k) => field_data.v[SkillCheckBoxOf[k]] = NameObject("/Yes")
        /\ \A box \in CheckBoxNames \cap DOMAIN field_data.v :
              field_data.v[box].t # "str" /\ field_data.v[box].t # "bool"
        /\ SaveCheckBoxOf["strength"] = "Check Box 11"
        /\ SkillCheckBoxOf["acrobatics"] = "Check Box 23"
        /\ SkillCheckBoxOf["survival"] = "Check Box 40"

\* C4 witness: stealth alone is proficient; its box is marked, no other is there
C4_Witness ==
    /\ Mapped
    /\ SkillFlag("stealth")
    /\ field_data.v["Check Box 39"] = NameObject("/Yes")
    /\ CheckBoxNames \cap DOMAIN field_data.v = {"Check Box 39"}

CurrencyFieldOf == [cp |-> "CP", sp |-> "SP", ep |-> "EP", gp |-> "GP", pp |-> "PP"]

AmountOf(d) == character.v.currency.v[d].n

\* C5: in every mapping returned, CP, SP, EP, GP and PP are all present; a
\* denomination of 0 is the empty text, never "0", and any other amount is its
\* decimal text: 0 gold and 15 silver give GP = "" and SP = "15".
C5_CurrencyHidesZero ==
    Mapped =>
        \A d \in DOMAIN CurrencyFieldOf :
            /\ CurrencyFieldOf[d] \in DOMAIN field_data.v
            /\ field_data.v[CurrencyFieldOf[d]].t = "str"
            /\ AmountOf(d) = 0 <=> field_data.v[CurrencyFieldOf[d]].s = ""
            /\ field_data.v[CurrencyFieldOf[d]].s # "0"
            /\ AmountOf(d) # 0 =>
                  /\ field_data.v[CurrencyFieldOf[d]].s = PyStr(AmountOf(d))
                  /\ PyInt(field_data.v[CurrencyFieldOf[d]].s) =
                        [ok |-> TRUE, val |-> AmountOf(d)]
            /\ AmountOf(d) = 15 => field_data.v[CurrencyFieldOf[d]].s = "15"

\* C5 witness: 0 gold and 15 silver have been mapped to GP = "" and SP = "15"
C5_Witness ==
    /\ Mapped
    /\ AmountOf("gp") = 0
    /\ AmountOf("sp") = 15
    /\ field_data.v["GP"] = StrV("")
    /\ field_data.v["SP"] = StrV("15")

\* a nested shape of the document is not the one the schema expects
MalformedShape(doc) ==
    \/ \E k \in DOMAIN NestedClass \cap DOMAIN doc : doc[k].t # "dict"
    \/ /\ "attacks" \in DOMAIN doc
       /\ \/ doc["attacks"].t # "list"
          \/ \E i \in DOMAIN doc["attacks"].items : doc["attacks"].items[i].t # "dict"
    \/ /\ "spellcasting" \in DOMAIN doc
       /\ doc["spellcasting"].t = "dict"
       /\ \E l \in Levels :
             /\ SlotsKey(l) \in DOMAIN doc["spellcasting"].v
             /\ doc["spellcasting"].v[SlotsKey(l)].t # "dict"

\* C6: whenever a nested sub-record of the document is not a mapping, or an
\* element of the attacks list is a scalar, character_from_dict raises and
\* returns no Character.
C6_MalformedShapeRaises ==
    (pc \notin {"start", "loaded"} /\ MalformedShape(input.v)) =>
        (pc = "failed" /\ character = None)

\* the scalar text fields of the form, under the names the form dictates
ScalarTextFields ==
    {"CharacterName", "ClassLevel", "Background", "PlayerName", "Race ",
     "Alignment", "XP",
     "STR", "STRmod", "DEX", "DEXmod ", "CON", "CONmod",
     "INT", "INTmod", "WIS", "WISmod", "CHA", "CHamod",
     "ProfBonus", "Passive",
     "AC", "Initiative", "Speed", "HPMax", "HPCurrent", "HPTemp", "HDTotal", "HD",
     "AttacksSpellcasting", "Equipment",
     "PersonalityTraits ", "Ideals", "Bonds", "Flaws",
     "ProficienciesLang", "Features and Traits",
     "CharacterName 2", "Age", "Height", "Weight", "Eyes", "Skin", "Hair",
     "Backstory", "Allies", "FactionName", "Feat+Traits", "Treasure",
     "Spellcasting Class 2", "SpellcastingAbility 2", "SpellSaveDC  2",
     "SpellAtkBonus 2"}
        \cup Range(SaveFieldOf) \cup Range(SkillFieldOf)

ListSlotFields ==
    UNION {Range(AttackSlotFields[i]) : i \in 1..3}
        \cup {CantripSlotField(i) : i \in 1..8}
        \cup {Level1SlotField(i) : i \in 1..13}

SlotsTotalField(l) == "SlotsTotal " \o PyStr(18 + l)

SlotsRemainingField(l) == "SlotsRemaining " \o PyStr(18 + l)

SlotCounterFields ==
    {SlotsTotalField(l) : l \in Levels} \cup {SlotsRemainingField(l) : l \in Levels}

\* every field of the form the mapper knows
FormFields ==
    ScalarTextFields \cup Range(CurrencyFieldOf) \cup CheckBoxNames \cup {"Inspiration"}
        \cup ListSlotFields \cup SlotCounterFields

WritesDone == Writes(character, ParsedBonus)

\* C11: in every mapping returned, no two writes of the mapper target the same
\* field name: the names written are pairwise distinct, so the number of keys
\* equals the number of writes and every written value is still the one stored.
C11_FieldNamesUnique ==
    Mapped =>
        LET ws == WritesDone
            names == {ws[i][1] : i \in DOMAIN ws}
        IN  /\ Cardinality(names) = Len(ws)
            /\ Cardinality(DOMAIN field_data.v) = Len(ws)
            /\ \A i \in DOMAIN ws : field_data.v[ws[i][1]] = ws[i][2]

\* C11 witness: a mapping with the last cantrip slot and the first level-1
\* spell slot both written, next to three attacks
C11_Witness ==
    /\ Mapped
    /\ {"Spells 1021", "Spells 1022", "Wpn Name 3"} \subseteq DOMAIN field_data.v
    /\ field_data.v["Spells 1021"] = StrV("cantrip 8")
    /\ field_data.v["Spells 1022"] = StrV("spell 1")

(***************************************************************************)
(* JSON text, as the token sequence json.dumps writes and json.load reads. *)
(* A string is one token (its escaping is not modelled); a number is its   *)
(* decimal text.                                                           *)
(***************************************************************************)
Tok(k, s) == [k |-> k, s |-> s]

\* the keys of a dict, one after the other
RECURSIVE KeysSeq(_)
KeysSeq(S) ==
    IF S = {} THEN <<>>
    ELSE LET k == CHOOSE x \in S : TRUE IN <<k>> \o KeysSeq(S \ {k})

\* json.dumps(x): [ok, val], ok = FALSE for the TypeError raised on a value
\* that is no str, int, bool, None, list or dict
RECURSIVE json_dumps(_), DumpItems(_, _), DumpMembers(_, _)
json_dumps(x) ==
    CASE x.t = "str" -> [ok |-> TRUE, val |-> <<Tok("string", x.s)>>]
      [] x.t = "int" -> [ok |-> TRUE, val |-> <<Tok("number", PyStr(x.n))>>]
      [] x.t = "bool" -> [ok |-> TRUE, val |-> <<Tok(IF x.b THEN "true" ELSE "false", "")>>]
      [] x.t = "NoneType" -> [ok |-> TRUE, val |-> <<Tok("null", "")>>]
      [] x.t = "list" ->
            LET r == DumpItems(x.items, 1)
            IN  [ok |-> r.ok, val |-> <<Tok("[", "")>> \o r.val \o <<Tok("]", "")>>]
      [] x.t = "dict" ->
            LET r == DumpMembers(x.v, KeysSeq(DOMAIN x.v))
            IN  [ok |-> r.ok, val |-> <<Tok("{", "")>> \o r.val \o <<Tok("}", "")>>]
      [] OTHER -> [ok |-> FALSE, val |-> <<>>]

DumpItems(items, i) ==
    IF i > Len(items) THEN [ok |-> TRUE, val |-> <<>>]
    ELSE LET r == json_dumps(items[i])
             rest == DumpItems(items, i + 1)
         IN  [ok |-> r.ok /\ rest.ok,
              val |-> r.val \o (IF i < Len(items) THEN <<Tok(",", "")>> ELSE <<>>) \o rest.val]

DumpMembers(d, keys) ==
    IF keys = <<>> THEN [ok |-> TRUE, val |-> <<>>]
    ELSE LET r == json_dumps(d[Head(keys)])
             rest == DumpMembers(d, Tail(keys))
         IN  [ok |-> r.ok /\ rest.ok,
              val |-> <<Tok("string", Head(keys)), Tok(":", "")>> \o r.val
                        \o (IF Len(keys) > 1 THEN <<Tok(",", "")>> ELSE <<>>) \o rest.val]

\* json.load: [val, rest], the value the first tokens spell and the tokens after it
RECURSIVE ParseValue(_), ParseItems(_, _), ParseMembers(_, _)
ParseValue(ts) ==
    LET h == Head(ts)
    IN  CASE h.k = "string" -> [val |-> StrV(h.s), rest |-> Tail(ts)]
          [] h.k = "number" -> [val |-> IntV(PyInt(h.s).val), rest |-> Tail(ts)]
          [] h.k = "true" -> [val |-> BoolV(TRUE), rest |-> Tail(ts)]
          [] h.k = "false" -> [val |-> BoolV(FALSE), rest |-> Tail(ts)]
          [] h.k = "null" -> [val |-> None, rest |-> Tail(ts)]
          [] h.k = "[" ->
                IF Head(Tail(ts)).k = "]"
                THEN [val |-> ListV(<<>>), rest |-> Tail(Tail(ts))]
                ELSE ParseItems(Tail(ts), <<>>)
          [] h.k = "{" ->
                IF Head(Tail(ts)).k = "}"
                THEN [val |-> DictV([k \in {} |-> None]), rest |-> Tail(Tail(ts))]
                ELSE ParseMembers(Tail(ts), [k \in {} |-> None])

ParseItems(ts, acc) ==
    LET r == ParseValue(ts)
    IN  IF Head(r.rest).k = ","
        THEN ParseItems(Tail(r.rest), Append(acc, r.val))
        ELSE [val |-> ListV(Append(acc, r.val)), rest |-> Tail(r.rest)]

\* a repeated key keeps its last value
ParseMembers(ts, acc) ==
    LET r == ParseValue(Tail(Tail(ts)))
        now == (Head(ts).s :> r.val) @@ acc
    IN  IF Head(r.rest).k = ","
        THEN ParseMembers(Tail(r.rest), now)
        ELSE [val |-> DictV(now), rest |-> Tail(r.rest)]

json_load(ts) == ParseValue(ts).val

(***************************************************************************)
(* The example run followed by a fill run of the file it printed:          *)
(* print_example_json writes the JSON text, main reads it back.            *)
(***************************************************************************)
With(c, f, x) == [c EXCEPT !.v[f] = x]

\* the Characters printed: the example, the all-defaults Character, and the
\* example with one field or one nested record replaced
ExampleCharacters ==
    {get_example_character, New("Character", EmptyFile)}
        \cup {With(get_example_character, f, StrV("")) : f \in CharacterTextFields}
        \cup {With(get_example_character, "attacks",
                   ListV([i \in 1..n |-> New("Attack", TestAttack(i).v)]))
              : n \in 0..MaxAttacks}
        \cup {With(get_example_character, "ability_scores",
                   New("AbilityScores", score_row)) : score_row \in ScoreRows}
        \cup {With(get_example_character, "saving_throws",
                   New("SavingThrows", a :> BoolV(TRUE))) : a \in Range(AbilityNames)}
        \cup {With(get_example_character, "skills",
                   New("Skills", k :> BoolV(TRUE))) : k \in Range(SkillNames)}
        \cup {With(get_example_character, "death_saves",
                   New("DeathSaves", [successes |-> IntV(s), failures |-> IntV(f)]))
              : s \in 0..3, f \in 0..3}
        \cup {With(get_example_character, "spellcasting",
                   New("Spellcasting",
                       SlotsKey(l) :> New("SpellSlots",
                                          [total |-> IntV(4), expended |-> IntV(1)])))
              : l \in Levels}
        \cup {With(get_example_character, "spellcasting",
                   New("Spellcasting",
                       ("cantrips" :> ListV(TestNames("cantrip ", n)))
                           @@ (SpellsKey(l) :> ListV(TestNames("spell ", n)))))
              : n \in 1..2, l \in Levels}

\* print(json.dumps(to_serializable(example), indent=2))
PrintExampleJson ==
    /\ pc = "start"
    /\ \E example \in ExampleCharacters :
        LET r == json_dumps(to_serializable(example))
        IN  /\ call' = [fn |-> "print_example_json", arg |-> example]
            /\ ret' = r
            /\ err' = IF r.ok THEN "none" ELSE "TypeError"
            /\ pc' = IF r.ok THEN "printed" ELSE "failed"
    /\ UNCHANGED <<input, char_data, character, field_data, output, grid>>

\* with open(args.character_json) as f: char_data = json.load(f), on the text printed
LoadPrintedJson ==
    /\ pc = "printed"
    /\ input' = json_load(ret.val)
    /\ char_data' = json_load(ret.val)
    /\ pc' = "loaded"
    /\ UNCHANGED <<character, field_data, err, output, call, ret, grid>>

NextRoundTrip ==
    \/ PrintExampleJson
    \/ LoadPrintedJson
    \/ CharacterFromDict
    \/ GetFieldMapping
    \/ WriteOutput

SpecRoundTrip == Init /\ [][NextRoundTrip]_vars

\* C12: a Character printed as print_example_json prints it (nested records
\* and lists turned into plain mappings and lists, then JSON text) and read
\* back by a fill run is deserialized into a Character equal to the original,
\* field for field: the text parses back to the plain record, and
\* character_from_dict of that record returns the original Character.
C12_RoundTrip ==
    call.fn = "print_example_json" =>
        /\ ret.ok
        /\ pc \notin {"start", "printed"} => input = to_serializable(call.arg)
        /\ pc \notin {"start", "printed", "loaded"} =>
              /\ character = call.arg
              /\ \A f \in FieldsOf("Character") : character.v[f] = call.arg.v[f]

\* C12 witness: the example Character itself came back from its printed text,
\* with its three Attack instances and its SpellSlots
C12_Witness ==
    /\ call.fn = "print_example_json"
    /\ call.arg = get_example_character
    /\ pc = "deserialized"
    /\ character = get_example_character
    /\ Len(character.v.attacks.items) = 3
    /\ IsInstance(character.v.attacks.items[1], "Attack")
    /\ IsInstance(character.v.spellcasting.v[SlotsKey(9)], "SpellSlots")
    /\ input # call.arg

\* the document has a key that is no field of the record it belongs to: at the
\* top level, in a nested sub-record mapping, in an attack, or in a level_N_slots
HasUnknownKey(doc) ==
    \/ ~(DOMAIN doc \subseteq FieldsOf("Character"))
    \/ \E k \in DOMAIN NestedClass \cap DOMAIN doc :
          doc[k].t = "dict" /\ ~(DOMAIN doc[k].v \subseteq FieldsOf(NestedClass[k]))
    \/ /\ "attacks" \in DOMAIN doc
       /\ doc["attacks"].t = "list"
       /\ \E i \in DOMAIN doc["attacks"].items :
             /\ doc["attacks"].items[i].t = "dict"
             /\ ~(DOMAIN doc["attacks"].items[i].v \subseteq FieldsOf("Attack"))
    \/ /\ "spellcasting" \in DOMAIN doc
       /\ doc["spellcasting"].t = "dict"
       /\ \E l \in Levels :
             /\ SlotsKey(l) \in DOMAIN doc["spellcasting"].v
             /\ doc["spellcasting"].v[SlotsKey(l)].t = "dict"
             /\ ~(DOMAIN doc["spellcasting"].v[SlotsKey(l)].v \subseteq FieldsOf("SpellSlots"))

\* C13: unknown keys are rejected at every level: once character_from_dict has
\* run on a document with a key that is no field of the record holding it (top
\* level, a nested sub-record, an attack, spellcasting, a level_N_slots), the
\* run has failed with a TypeError, no Character exists, and nothing is mapped
\* or written; the key is never dropped silently.
C13_UnknownKeysRejected ==
    (pc \notin {"start", "loaded"} /\ HasUnknownKey(input.v)) =>
        /\ pc = "failed"
        /\ err = "TypeError"
        /\ character = None
        /\ field_data = None
        /\ output = None

\* C13 witness: the example file with a stray key inside level_5_slots was rejected
C13_Witness ==
    /\ pc = "failed"
    /\ err = "TypeError"
    /\ character = None
    /\ DOMAIN ExampleFile \subseteq DOMAIN input.v
    /\ "bogus" \in DOMAIN input.v["spellcasting"].v[SlotsKey(5)].v

\* C14: no partial output.  The output file changes only in the step that
\* follows a successful get_field_mapping on a Character that deserialization
\* returned, and it then holds the whole mapping; in a run where deserialization
\* or the mapper raised, the output file is never created.
C14_NoPartialOutput ==
    /\ [](pc = "failed" => output = None)
    /\ [](output # None => (pc = "done" /\ err = "none" /\ output = field_data))
    /\ [][output' # output =>
            /\ pc = "mapped"
            /\ err = "none"
            /\ character # None
            /\ field_data = get_field_mapping(character).fields
            /\ output' = field_data]_vars

\* C14 witness: deserialization returned a Character, the mapper raised on its
\* proficiency bonus, and the run ended without an output file
C14_Witness ==
    /\ pc = "failed"
    /\ character # None
    /\ err = "ValueError"
    /\ field_data = None
    /\ output = None

\* C15: character_from_dict leaves the record it is given unchanged: after the
\* call (returned or raised) the caller's record char_data, its nested
\* spellcasting record included, is still the document that was loaded.
C15_InputUnchanged ==
    pc \notin {"start", "loaded"} => char_data = input

\* the Character with everything the form does not show reset: default death
\* saves, no free-text appearance, no spells of levels 2-9, and the lists cut
\* to the slots rendered (3 attacks, 8 cantrips, 13 level-1 spells)
Rendered(c) ==
    LET cut(x, n) == IF x.t = "list" THEN ListV(Prefix(x.items, n)) ELSE x
        sc == c.v.spellcasting
        shown ==
            IF sc.t # "Spellcasting" THEN sc
            ELSE [sc EXCEPT !.v =
                    [f \in DOMAIN sc.v |->
                        IF f \in {SpellsKey(l) : l \in 2..9} THEN ListV(<<>>)
                        ELSE IF f = "cantrips" THEN cut(sc.v[f], 8)
                        ELSE IF f = "level_1_spells" THEN cut(sc.v[f], 13)
                        ELSE sc.v[f]]]
    IN  [c EXCEPT !.v =
            [f \in DOMAIN c.v |->
                IF f = "death_saves" THEN New("DeathSaves", EmptyFile)
                ELSE IF f = "character_appearance" THEN StrV("")
                ELSE IF f = "attacks" THEN cut(c.v[f], 3)
                ELSE IF f = "spellcasting" THEN shown
                ELSE c.v[f]]]

\* C16: the outcome of the mapper depends on the rendered fields only: mapping
\* the same Character again gives the same result, and so does mapping the
\* Character with death_saves, character_appearance, the spell lists of levels
\* 2-9 and the list entries beyond the rendered slots reset; hence two
\* Characters that differ only there get identical mappings (same keys, same
\* values) or the same exception.
C16_OnlyRenderedFieldsMatter ==
    (character # None /\ pc \in {"mapped", "done", "failed"}) =>
        /\ get_field_mapping(character) = [err |-> err, fields |-> field_data]
        /\ get_field_mapping(Rendered(character)) = [err |-> err, fields |-> field_data]

\* C16 witness: a mapped Character with death saves, a free-text appearance,
\* level-5 spells and a fourth attack, none of which is in the mapping
C16_Witness ==
    /\ Mapped
    /\ IsInstance(character.v.death_saves, "DeathSaves")
    /\ character.v.death_saves.v.failures.n = 2
    /\ character.v.character_appearance # StrV("")
    /\ Len(character.v.spellcasting.v[SpellsKey(5)].items) = 2
    /\ Len(character.v.attacks.items) = 4
    /\ character # Rendered(character)
    /\ \A k \in DOMAIN field_data.v :
          field_data.v[k] \notin {character.v.character_appearance, StrV("spell 2"),
                                  StrV("attack 4")}

(***************************************************************************)
(* The grid generator get_matrix (src/codenames_matrix.py).  One step is   *)
(* one turn of the inner while loop: a draw num, and the cell appended if  *)
(* the draw is taken.  row holds the letters of the row being filled; of   *)
(* the rows already appended, matrix keeps the shape (where the 'A' and    *)
(* 'N' cells are, '-' for a team cell) and the tally of the team letters,  *)
(* counted from the rows themselves; where each team letter sits in a      *)
(* finished row is not kept.                                               *)
(***************************************************************************)
\* the outcomes of rng().choice(30, size=5, replace=False) explored: 5 distinct
\* cells of 0..29, in the order drawn
WildChoices ==
    {<<0, 1, 2, 3, 4>>, <<29, 0, 15, 7, 22>>, <<12, 29, 28, 27, 26>>,
     <<5, 10, 15, 20, 25>>, <<14, 3, 24, 9, 19>>, <<27, 25, 29, 26, 28>>}

Draws == 1..3

\* Mutant: a tenth blue cell is allowed
BlueOpen_cap_10 == ones <= 9

\* Mutant: blue is capped at eight like the other teams
BlueOpen_cap_8 == ones < 8

\* the guards of the three team branches
BlueOpen == ones <= 8

RedOpen == twos < 8

GreenOpen == threes < 8

\* i in wilds
IsWild(c) == \E k \in DOMAIN wilds : wilds[k] = c

\* the branch a draw takes at a cell that is not wild, "retry" if none
Branch(draw) ==
    IF draw = 1 /\ BlueOpen THEN "B"
    ELSE IF draw = 2 /\ RedOpen THEN "R"
    ELSE IF draw = 3 /\ GreenOpen THEN "G"
    ELSE "retry"

Shape(r) == [j \in DOMAIN r |-> IF r[j] \in {"A", "N"} THEN r[j] ELSE "-"]

CountOf(r, letter) == Cardinality({j \in DOMAIN r : r[j] = letter})

\* row.append(letter); break; i += 1; and matrix.append(row) after the fifth cell
Place(letter) ==
    LET filled == Append(row, letter)
    IN  /\ cell' = cell + 1
        /\ IF Len(filled) = 5
           THEN /\ row' = <<>>
                /\ matrix' = [shape |-> Append(matrix.shape, Shape(filled)),
                              tally |-> [l \in {"B", "R", "G"} |->
                                            matrix.tally[l] + CountOf(filled, l)]]
           ELSE /\ row' = filled
                /\ matrix' = matrix
        /\ pc' = IF cell + 1 = 30 THEN "returned" ELSE "filling"

\* wilds = rng().choice(30, size=5, replace=False)
ChooseWilds ==
    /\ pc = "start"
    /\ \E w \in WildChoices : wilds' = w
    /\ pc' = "filling"
    /\ UNCHANGED <<num, ones, twos, threes, cell, row, matrix, sheet>>

\* if i == wilds[0]: row.append('A')
PlaceAssassin ==
    /\ pc = "filling"
    /\ cell = wilds[1]
    /\ \E draw \in Draws : num' = draw
    /\ Place("A")
    /\ UNCHANGED <<wilds, ones, twos, threes, sheet>>

\* elif i in wilds: row.append('N')
PlaceNeutral ==
    /\ pc = "filling"
    /\ cell # wilds[1]
    /\ IsWild(cell)
    /\ \E draw \in Draws : num' = draw
    /\ Place("N")
    /\ UNCHANGED <<wilds, ones, twos, threes, sheet>>

\* elif num == 1 and ones <= 8: row.append('B'); ones += 1
PlaceBlue ==
    /\ pc = "filling"
    /\ ~IsWild(cell)
    /\ Branch(1) = "B"
    /\ num' = 1
    /\ ones' = ones + 1
    /\ Place("B")
    /\ UNCHANGED <<wilds, twos, threes, sheet>>

\* elif num == 2 and twos < 8: row.append('R'); twos += 1
PlaceRed ==
    /\ pc = "filling"
    /\ ~IsWild(cell)
    /\ Branch(2) = "R"
    /\ num' = 2
    /\ twos' = twos + 1
    /\ Place("R")
    /\ UNCHANGED <<wilds, ones, threes, sheet>>

\* elif num == 3 and threes < 8: row.append('G'); threes += 1
PlaceGreen ==
    /\ pc = "filling"
    /\ ~IsWild(cell)
    /\ Branch(3) = "G"
    /\ num' = 3
    /\ threes' = threes + 1
    /\ Place("G")
    /\ UNCHANGED <<wilds, ones, twos, sheet>>

\* no branch taken: the while loop draws again
RetryDraw ==
    /\ pc = "filling"
    /\ ~IsWild(cell)
    /\ \E draw \in Draws : Branch(draw) = "retry" /\ num' = draw
    /\ UNCHANGED <<pc, wilds, ones, twos, threes, cell, row, matrix, sheet>>

NextMatrix ==
    \/ ChooseWilds
    \/ PlaceAssassin
    \/ PlaceNeutral
    \/ PlaceBlue
    \/ PlaceRed
    \/ PlaceGreen
    \/ RetryDraw

SpecMatrix == Init /\ [][NextMatrix]_vars

\* fair draws: a draw that would be taken is not avoided for ever
SpecMatrixFair ==
    /\ SpecMatrix
    /\ WF_vars(ChooseWilds)
    /\ WF_vars(PlaceAssassin)
    /\ WF_vars(PlaceNeutral)
    /\ WF_vars(PlaceBlue)
    /\ WF_vars(PlaceRed)
    /\ WF_vars(PlaceGreen)

\* the letter kept for cell c of a finished grid: row c \div 5, column c % 5
ShapeAt(c) == matrix.shape[(c \div 5) + 1][(c % 5) + 1]

\* C17: at every step ones <= 9, twos <= 8 and threes <= 8; and whenever
\* get_matrix returns, the grid has 6 rows of 5 cells, 'A' exactly at the first
\* wild position, 'N' exactly at the other four, and the 25 remaining cells
\* hold nine 'B', eight 'R' and eight 'G'.
C17_GridComposition ==
    /\ ones <= 9 /\ twos <= 8 /\ threes <= 8
    /\ pc = "returned" =>
          /\ Len(matrix.shape) = 6
          /\ \A r \in 1..6 : Len(matrix.shape[r]) = 5
          /\ row = <<>>
          /\ \A c \in 0..29 :
                ShapeAt(c) = IF c = wilds[1] THEN "A"
                             ELSE IF c \in {wilds[k] : k \in 2..5} THEN "N"
                             ELSE "-"
          /\ Cardinality({c \in 0..29 : ShapeAt(c) = "A"}) = 1
          /\ Cardinality({c \in 0..29 : ShapeAt(c) = "N"}) = 4
          /\ matrix.tally = [B |-> 9, R |-> 8, G |-> 8]

\* C17 witness: a grid returned with the assassin in its last cell
C17_Witness ==
    /\ pc = "returned"
    /\ wilds[1] = 29
    /\ matrix.shape[6][5] = "A"
    /\ matrix.tally["B"] = 9
    /\ ones = 9

\* C18: get_matrix terminates under fair draws: at every cell that is not wild
\* one of the counters is below its cap (ones <= 8, twos < 8 or threes < 8), so
\* some draw is taken, and the run eventually returns with all 30 cells filled.
C18_Terminates ==
    /\ []((pc = "filling" /\ ~IsWild(cell)) =>
            /\ (ones <= 8 \/ twos < 8 \/ threes < 8)
            /\ \E draw \in Draws : Branch(draw) # "retry")
    /\ <>(pc = "returned" /\ cell = 30 /\ Len(matrix.shape) = 6)

\* C18 witness: the last team cell, two teams full, after a draw that was not taken
C18_Witness ==
    /\ pc = "filling"
    /\ ~IsWild(cell)
    /\ ones + twos + threes = 24
    /\ twos = 8 /\ threes = 8
    /\ Branch(num) = "retry"

====
